---- MODULE Spec2Model ----
(***************************************************************************)
(* The flight maneuver controller of flyby (src/src/hooks/                 *)
(* useFlightController.ts): FlightState, initFlight, proceed and update.   *)
(*                                                                         *)
(* Numbers.  The code computes in floating point; the model computes the   *)
(* same expressions exactly, in fixed point with denominator Scale: a      *)
(* deltaTime, a distance, a sixteen-bit angle and a radian angle x is held *)
(* as the integer x * Scale.  deltaTime values are multiples of 0.01 s     *)
(* (8 / Scale), for which every division below is exact.  The model's      *)
(* radian is the 180th part of Math.PI, so that toRadians is a conversion  *)
(* between two different units (65536 <-> 2 * PI = 360).  A Math.random()  *)
(* result is n / RandDen for a drawn numerator n.                          *)
(***************************************************************************)
EXTENDS Integers, Sequences, FiniteSets, TLC

Scale == 800
PI == 180
RandDen == 12

\* Constants from original FLYBY.C
SPEED == 100
ALTITUDE == 300
FULL_CIRCLE == 65536
PITCH_RATE == 8192
BANK_RATE == 32768
TURN_RATE == 8192
startDistance == 200

\* Bound: update calls of one session (since construction or the latest
\* initFlight) that return without flying, because the flight is complete or
\* because they throw.
MaxIdle == 2

Undefined == "undefined"
ManeuverType == {"straight", "roll", "loop", "climb", "eight", "turn360"}

\* An id outside the ManeuverType union, as an untyped caller can pass it.
UnknownIds == {"barrel"}

\* Angle conversion: (angle16 / FULL_CIRCLE) * Math.PI * 2
toRadians(angle16) == (angle16 \div FULL_CIRCLE) * PI * 2

Ahead(v) == [type |-> "ahead", value |-> v]
Rot(t, v, d) == [type |-> t, value |-> v, direction |-> d]

\* Maneuver definitions ported from FLYBY.C
MANEUVERS ==
  [m \in ManeuverType |->
     CASE m = "straight" -> << Ahead(1000) >>
       [] m = "roll"     -> << Ahead(300), Rot("bank", FULL_CIRCLE, 1), Ahead(300) >>
       [] m = "loop"     -> << Ahead(500), Rot("pitch", FULL_CIRCLE, 1), Ahead(500) >>
       [] m = "climb"    -> << Ahead(450), Rot("pitch", 12800, 1), Ahead(500) >>
       [] m = "eight"    -> << Ahead(400), Rot("pitch", 16384, 1), Ahead(50),
                               Rot("pitch", 24576, 1), Rot("bank", 98304, 1),
                               Rot("pitch", 24576, 1), Ahead(50),
                               Rot("pitch", 24576, 1), Rot("bank", 98304, 1),
                               Rot("pitch", 8192, 1), Ahead(400) >>
       [] m = "turn360"  -> << Ahead(450), Rot("bank", 12800, 1),
                               Rot("turn", FULL_CIRCLE, 1), Rot("bank", 12800, -1),
                               Ahead(500) >>]

\* step.direction ?? 1
Direction(step) == IF "direction" \in DOMAIN step THEN step.direction ELSE 1

RECURSIVE GCD(_, _)
GCD(a, b) == IF b = 0 THEN a ELSE GCD(b, a % b)

\* The quotient n / d of two non-negative numbers, d > 0, as an exact fraction
\* in lowest terms.
Quotient(n, d) == [num |-> n \div GCD(n, d), den |-> d \div GCD(n, d)]
Zero == [num |-> 0, den |-> 1]
One == [num |-> 1, den |-> 1]

\* Math.sin and Math.cos, exact on the quarter turns (the only arguments the
\* modelled random directions produce).
Sin(a) ==
  LET turn == 2 * PI * Scale IN
  CASE a % turn = 0 -> 0
    [] a % turn = turn \div 4 -> 1
    [] a % turn = turn \div 2 -> 0
    [] a % turn = 3 * (turn \div 4) -> -1
Cos(a) == Sin(a + (PI * Scale) \div 2)

VARIABLES
  position,          \* state.position
  heading,           \* state.heading, radians
  pitch,             \* state.pitch, radians
  bank,              \* state.bank, radians
  maneuverProgress,  \* state.maneuverProgress
  currentManeuver,   \* state.currentManeuver
  maneuverPhase,     \* state.maneuverPhase
  isComplete,        \* state.isComplete
  stepProgress,      \* stepProgressRef.current
  deltaTime,         \* argument of the session's latest update call (0: none yet)
  frames,            \* the deltaTime arguments of the session's update calls
  ticks,             \* update calls of the session that got past the isComplete check
  idle,              \* update calls of the session that returned at that check, or threw
  thrown,            \* the latest call ended in an exception
  call,              \* the latest call of a function of the model parser
  scene              \* FlybyScene and its Aircraft: selection, session, timers

flightVars == << position, heading, pitch, bank, maneuverProgress,
                 currentManeuver, maneuverPhase, isComplete, stepProgress >>
vars == << position, heading, pitch, bank, maneuverProgress, currentManeuver,
           maneuverPhase, isComplete, stepProgress, deltaTime, frames, ticks,
           idle, thrown, call, scene >>

\* Before App is mounted there is no scene.
NoScene == [mounted |-> FALSE]

\* No function of the model parser has been called.
NoCall == [fn |-> "none", arg |-> << >>, result |-> << >>]

\* A position is origin + the sum over e in DOMAIN path of path[e] * F(e),
\* F(e) being the unit vector THREE.Euler(e.pitch, e.heading, e.bank, 'YXZ')
\* turns (0, 0, 1) into; origin and path[e] are in 1/Scale units.
Vector3(x, y, z) == [origin |-> << x, y, z >>, path |-> << >>]

Euler(x, y, z) == [pitch |-> x, heading |-> y, bank |-> z]

\* position.add(forward), forward = (0, 0, distance).applyEuler(euler)
AddForward(pos, euler, distance) ==
  [pos EXCEPT !.path =
     IF distance = 0 THEN @
     ELSE IF euler \in DOMAIN @ THEN [@ EXCEPT ![euler] = @ + distance]
     ELSE @ @@ (euler :> distance)]

\* Move aircraft forward: the position proceed leaves, from the attitude given.
proceed(pos, h, p, b, distance) == AddForward(pos, Euler(p, h, b), distance)

\* Get random maneuver: maneuvers[Math.floor(Math.random() * maneuvers.length)],
\* for the draw r / RandDen.
maneuvers == << "straight", "roll", "loop", "climb", "eight", "turn360" >>
getRandomManeuver(r) == maneuvers[((r * Len(maneuvers)) \div RandDen) + 1]

\* Numerators (over RandDen) of the Math.random() results the model draws.
DirDraws == {0, 3, 6, 9}
JitterDraws == {0, 6}
ManeuverDraws == {1, 3, 5, 7, 9, 11}

\* deltaTime arguments of update, in 1/Scale seconds: 0.07 s and 0.1 s, two
\* frame times in (0, 0.1] (0.1 s divides the straight and roll steps evenly,
\* 0.07 s divides no step), and 20 s, far beyond the adapter's clamp.
DeltaTimes == {56, 80, 16000}

\* const dir = Math.random() * Math.PI * 2
RandomDir(r) == (r * PI * 2 * Scale) \div RandDen

\* ALTITUDE + (Math.random() * 30 - 15)
StartAltitude(r) == ALTITUDE * Scale + ((r * 30 * Scale) \div RandDen - 15 * Scale)

\* state.position.set(-startDistance * sin(dir), ..., startDistance * cos(dir))
StartPosition(dir, rJitter) ==
  Vector3(-(startDistance * Scale) * Sin(dir), StartAltitude(rJitter),
          (startDistance * Scale) * Cos(dir))

\* state.heading = dir + Math.PI
StartHeading(dir) == dir + PI * Scale

\* stepProgressRef.current = 0 in initFlight
KeepStepProgress(old) == old
InitialStepProgress(old) == 0

\* initFlight(maneuver), with the results of its Math.random() calls.
initFlight(maneuver, rDir, rJitter, rManeuver) ==
  LET dir == RandomDir(rDir) IN
  /\ position' = StartPosition(dir, rJitter)
  /\ heading' = StartHeading(dir)
  /\ pitch' = 0
  /\ bank' = 0
  /\ maneuverProgress' = Zero
  /\ currentManeuver' = IF maneuver = Undefined THEN getRandomManeuver(rManeuver)
                        ELSE maneuver
  /\ maneuverPhase' = 0
  /\ isComplete' = FALSE
  /\ stepProgress' = InitialStepProgress(stepProgress)
  /\ deltaTime' = 0
  /\ frames' = {}
  /\ ticks' = 0
  /\ idle' = 0
  /\ thrown' = FALSE
  /\ UNCHANGED call

\* state.maneuverPhase >= maneuver.length
PhaseBeyondRange(phase, maneuver) == phase > Len(maneuver)
PhaseOutOfRange(phase, maneuver) == phase >= Len(maneuver)

\* const vel = deltaTime * SPEED
Vel(dt) == dt * SPEED

\* The rate of a rotating step: PITCH_RATE, BANK_RATE or TURN_RATE.
Rate(step) ==
  CASE step.type = "pitch" -> PITCH_RATE
    [] step.type = "bank" -> BANK_RATE
    [] step.type = "turn" -> TURN_RATE

\* What one tick adds to stepProgressRef.current: vel in an ahead step,
\* deltaTime * RATE in a rotating one.
Gain(step, dt) == IF step.type = "ahead" THEN Vel(dt) ELSE dt * Rate(step)

\* stepProgressRef.current >= step.value
StepDoneStrict(progress, step) == progress > step.value * Scale
StepDone(progress, step) == progress >= step.value * Scale

\* state.maneuverPhase++
SkipPhase(phase) == phase + 2
NextPhase(phase) == phase + 1

\* The angle increment of a tick with step.direction left out
AngleDeltaForward(step, dt) == toRadians(dt * Rate(step))

\* toRadians(deltaTime * RATE) * (step.direction ?? 1)
AngleDelta(step, dt) == toRadians(dt * Rate(step)) * Direction(step)

\* The pose one tick of a step leaves: proceed(vel) from the attitude held
\* on entry, and after it the step's angle incremented.
RotateThenMove(pos, h, p, b, step, dt) ==
  LET d == IF step.type = "ahead" THEN 0 ELSE AngleDelta(step, dt)
      h2 == IF step.type = "turn" THEN h + d ELSE h
      p2 == IF step.type = "pitch" THEN p + d ELSE p
      b2 == IF step.type = "bank" THEN b + d ELSE b
  IN [position |-> proceed(pos, h2, p2, b2, Vel(dt)),
      heading |-> h2, pitch |-> p2, bank |-> b2]
\* The pose one tick leaves when every rotating step drives the heading too
MoveThenYaw(pos, h, p, b, step, dt) ==
  LET moved == proceed(pos, h, p, b, Vel(dt))
      d == IF step.type = "ahead" THEN 0 ELSE AngleDelta(step, dt)
  IN [position |-> moved,
      heading |-> h + d,
      pitch |-> IF step.type = "pitch" THEN p + d ELSE p,
      bank |-> IF step.type = "bank" THEN b + d ELSE b]
MoveThenRotate(pos, h, p, b, step, dt) ==
  LET moved == proceed(pos, h, p, b, Vel(dt))
      d == IF step.type = "ahead" THEN 0 ELSE AngleDelta(step, dt)
  IN [position |-> moved,
      heading |-> IF step.type = "turn" THEN h + d ELSE h,
      pitch |-> IF step.type = "pitch" THEN p + d ELSE p,
      bank |-> IF step.type = "bank" THEN b + d ELSE b]

\* state.maneuverProgress = state.maneuverPhase / maneuver.length
ProgressOfNextPhase(phase, maneuver) == Quotient(phase + 1, Len(maneuver))
Progress(phase, maneuver) == Quotient(phase, Len(maneuver))

\* update, complete flight: if (state.isComplete) return state;
proceedAndReturn(dt) ==
  /\ position' = proceed(position, heading, pitch, bank, Vel(dt))
  /\ thrown' = FALSE
  /\ idle' = idle + 1
  /\ UNCHANGED << heading, pitch, bank, maneuverProgress, currentManeuver,
                  maneuverPhase, isComplete, stepProgress, ticks >>
returnState(dt) ==
  /\ thrown' = FALSE
  /\ idle' = idle + 1
  /\ UNCHANGED << flightVars, ticks >>

\* update, a property read of undefined (maneuver.length, step.type): the
\* call ends in a TypeError with the state as it was.
throwTypeError ==
  /\ thrown' = TRUE
  /\ idle' = idle + 1
  /\ UNCHANGED << flightVars, ticks >>

\* update, phase out of range: state.isComplete = true; return state;
markComplete ==
  /\ isComplete' = TRUE
  /\ thrown' = FALSE
  /\ ticks' = ticks + 1
  /\ UNCHANGED << position, heading, pitch, bank, maneuverProgress,
                  currentManeuver, maneuverPhase, stepProgress, idle >>

\* update, the switch over step.type and the progress recomputation.
flyStep(maneuver, step, dt) ==
  LET pose == MoveThenRotate(position, heading, pitch, bank, step, dt)
      progress == stepProgress + Gain(step, dt)
      done == StepDone(progress, step)
      phase == IF done THEN NextPhase(maneuverPhase) ELSE maneuverPhase
  IN /\ position' = pose.position
     /\ heading' = pose.heading
     /\ pitch' = pose.pitch
     /\ bank' = pose.bank
     /\ stepProgress' = IF done THEN 0 ELSE progress
     /\ maneuverPhase' = phase
     /\ maneuverProgress' = Progress(phase, maneuver)
     /\ thrown' = FALSE
     /\ ticks' = ticks + 1
     /\ UNCHANGED << currentManeuver, isComplete, idle >>

\* update(deltaTime)
update(dt) ==
  /\ deltaTime' = dt
  /\ frames' = frames \cup {dt}
  /\ UNCHANGED call
  /\ IF isComplete THEN returnState(dt)
     ELSE IF currentManeuver \notin DOMAIN MANEUVERS THEN throwTypeError
     ELSE LET maneuver == MANEUVERS[currentManeuver] IN
          IF PhaseOutOfRange(maneuverPhase, maneuver) THEN markComplete
          ELSE IF maneuverPhase + 1 \notin DOMAIN maneuver THEN throwTypeError
          ELSE flyStep(maneuver, maneuver[maneuverPhase + 1], dt)

\* The state useFlightController constructs.
Init ==
  /\ position = Vector3(0, ALTITUDE * Scale, 0)
  /\ heading = 0
  /\ pitch = 0
  /\ bank = 0
  /\ maneuverProgress = Zero
  /\ currentManeuver = "straight"
  /\ maneuverPhase = 0
  /\ isComplete = FALSE
  /\ stepProgress = 0
  /\ deltaTime = 0
  /\ frames = {}
  /\ ticks = 0
  /\ idle = 0
  /\ thrown = FALSE
  /\ call = NoCall
  /\ scene = NoScene

\* The frame time is steady within a session: every update of a session gets
\* the deltaTime its first update got.
SteadyFrames(dt) == deltaTime = 0 \/ dt = deltaTime

InitFlight ==
  \E maneuver \in ManeuverType \cup UnknownIds \cup {Undefined} :
    \E rDir \in DirDraws, rJitter \in JitterDraws :
      \E rManeuver \in (IF maneuver = Undefined THEN ManeuverDraws ELSE {0}) :
        initFlight(maneuver, rDir, rJitter, rManeuver) /\ UNCHANGED scene

Update ==
  /\ idle < MaxIdle
  /\ \E dt \in DeltaTimes : SteadyFrames(dt) /\ update(dt)
  /\ UNCHANGED scene

Next == InitFlight \/ Update

Spec == Init /\ [][Next]_vars

(***************************************************************************)
(* The scene that drives the controller: App loads the persisted settings, *)
(* FlybyScene picks the maneuver of the session, Aircraft starts the       *)
(* flight and calls update once per frame.                                 *)
(***************************************************************************)

\* MANEUVERS of the scene: the ids FlybyScene draws a random maneuver from.
SceneManeuvers == << "straight", "roll", "loop", "climb", "eight", "turn360" >>

\* What localStorage holds under STORAGE_KEY: nothing, a text JSON.parse
\* rejects, or an object whose selectedManeuver is missing or any string.
StoredSettings ==
  [kind : {"absent", "garbage"}, selectedManeuver : {Undefined}]
    \cup [kind : {"object"},
          selectedManeuver : {Undefined, "random"} \cup ManeuverType \cup UnknownIds]

\* loadDebugSettings(): the selectedManeuver field of the DebugState returned.
loadDebugSettings(stored) ==
  IF stored.kind = "object"
  THEN [selectedManeuver |->
          IF stored.selectedManeuver = Undefined THEN "random"
          ELSE stored.selectedManeuver]
  ELSE [selectedManeuver |-> "random"]

\* FlybyScene: the initial value of the maneuver state.
InitialManeuver(selectedManeuver, r) ==
  IF selectedManeuver = "random"
  THEN SceneManeuvers[((r * Len(SceneManeuvers)) \div RandDen) + 1]
  ELSE selectedManeuver

\* Aircraft, useFrame: Math.min(delta, 0.1)
clampedDelta(delta) == IF delta < Scale \div 10 THEN delta ELSE Scale \div 10

\* A session is mounted: App reads the settings, FlybyScene chooses the
\* maneuver, Aircraft calls initFlight(maneuver) once the geometry is there.
MountScene ==
  \E stored \in StoredSettings :
    LET selectedManeuver == loadDebugSettings(stored).selectedManeuver IN
    \E rDir \in DirDraws, rJitter \in JitterDraws :
      \E r \in (IF selectedManeuver = "random" THEN ManeuverDraws ELSE {0}) :
        /\ initFlight(InitialManeuver(selectedManeuver, r), rDir, rJitter, 0)
        /\ UNCHANGED scene

\* One frame of Aircraft: update(clampedDelta).
Frame ==
  /\ idle < MaxIdle
  /\ \E delta \in DeltaTimes :
       SteadyFrames(clampedDelta(delta)) /\ update(clampedDelta(delta))
  /\ UNCHANGED scene

NextScene == MountScene \/ Frame

SpecScene == Init /\ [][NextScene]_vars

(***************************************************************************)
(* One flight: initFlight is called before the first update only, and the  *)
(* frame loop keeps calling update for as long as the session lives.       *)
(***************************************************************************)

\* initFlight of a session no update has been made in.
Takeoff ==
  /\ ticks = 0
  /\ idle = 0
  /\ InitFlight

NextFlight == Takeoff \/ Update

SpecFlight == Init /\ [][NextFlight]_vars /\ WF_vars(Update)

(***************************************************************************)
(* One flight whose frame time changes: the frames of a session need not   *)
(* all take the same time.                                                 *)
(***************************************************************************)

\* The clamped frame times of the flight: 0.07 s and 0.1 s.
FrameTimes == { clampedDelta(delta) : delta \in DeltaTimes }

\* The frame time changes at most once in a session, between two steps of
\* the maneuver.
OneChangeOfFrameTime(dt) ==
  \/ deltaTime = 0
  \/ dt = deltaTime
  \/ stepProgress = 0 /\ Cardinality(frames) = 1

UpdateUnsteady ==
  /\ idle < MaxIdle
  /\ \E dt \in FrameTimes : OneChangeOfFrameTime(dt) /\ update(dt)
  /\ UNCHANGED scene

NextUnsteady == Takeoff \/ UpdateUnsteady

SpecUnsteady == Init /\ [][NextUnsteady]_vars

(***************************************************************************)
(* One flight with the smoke query: isEmittingSmoke may be called between  *)
(* any two update calls.                                                   *)
(***************************************************************************)

\* The call isEmittingSmoke() returning value (result is << value >>), and
\* ending in an exception (no result)
SmokeReturned(value) ==
  [fn |-> "isEmittingSmoke", arg |-> << >>, result |-> << value >>]
SmokeThrew == [fn |-> "isEmittingSmoke", arg |-> << >>, result |-> << >>]

\* isEmittingSmoke()
isEmittingSmoke ==
  /\ IF isComplete
     THEN call' = SmokeReturned(FALSE) /\ thrown' = FALSE
     ELSE IF currentManeuver \notin DOMAIN MANEUVERS
     THEN call' = SmokeThrew /\ thrown' = TRUE
     ELSE LET maneuver == MANEUVERS[currentManeuver] IN
          IF PhaseOutOfRange(maneuverPhase, maneuver)
          THEN call' = SmokeReturned(FALSE) /\ thrown' = FALSE
          ELSE LET step == maneuver[maneuverPhase + 1] IN
               /\ call' = SmokeReturned(step.type = "pitch" \/ step.type = "bank"
                                          \/ step.type = "turn")
               /\ thrown' = FALSE
  /\ UNCHANGED << flightVars, deltaTime, frames, ticks, idle, scene >>

NextSmoke == Takeoff \/ Update \/ isEmittingSmoke

SpecSmoke == Init /\ [][NextSmoke]_vars

(***************************************************************************)
(* The model parser: colorToRGB, parseSRF, triangulate and                 *)
(* createGeometryFromSRF, pure functions of their argument.                *)
(***************************************************************************)

\* Bounds of the index lists triangulate is called with.
MaxIndices == 5
MaxIndex == 3

\* x >> n and x & y of two non-negative integers.
RECURSIVE ShiftRight(_, _)
ShiftRight(x, n) == IF n = 0 THEN x ELSE ShiftRight(x \div 2, n - 1)

RECURSIVE BitAnd(_, _)
BitAnd(x, y) ==
  IF x = 0 \/ y = 0 THEN 0
  ELSE (x % 2) * (y % 2) + 2 * BitAnd(x \div 2, y \div 2)

\* new THREE.Color(r, g, b)
Color(r, g, b) == [r |-> r, g |-> g, b |-> b]

\* colorToRGB with the first field of the code read as red
colorToRGBHighRed(colorCode) ==
  LET r == Quotient(BitAnd(ShiftRight(colorCode, 10), 31), 31)
      g == Quotient(BitAnd(ShiftRight(colorCode, 5), 31), 31)
      b == Quotient(BitAnd(colorCode, 31), 31)
  IN Color(r, g, b)

\* colorToRGB(colorCode)
colorToRGB(colorCode) ==
  LET g == Quotient(BitAnd(ShiftRight(colorCode, 10), 31), 31)
      r == Quotient(BitAnd(ShiftRight(colorCode, 5), 31), 31)
      b == Quotient(BitAnd(colorCode, 31), 31)
  IN Color(r, g, b)

\* A triangle of three consecutive indices
StripTriangle(indices, i) == << indices[i], indices[i + 1], indices[i + 2] >>

\* [indices[0], indices[i], indices[i + 1]], i counted from 0 as in the code
FanTriangle(indices, i) == << indices[1], indices[i + 1], indices[i + 2] >>

\* triangulate(indices): the loop from i on, triangles being the list so far
RECURSIVE triangulateFrom(_, _, _)
triangulateFrom(indices, i, triangles) ==
  IF i < Len(indices) - 1
  THEN triangulateFrom(indices, i + 1, Append(triangles, FanTriangle(indices, i)))
  ELSE triangles

triangulate(indices) == triangulateFrom(indices, 1, << >>)

\* The text of a model file is held as content.split('\n') gives it, each
\* line as line.trim().split(/\s+/) gives it: a list of tokens (an empty
\* line has none). Numerals is the value parseInt and parseFloat give each
\* token that is a number; every other token parses to NaN.
Numerals ==
  ("-1" :> -1) @@ ("0" :> 0) @@ ("1" :> 1) @@ ("2" :> 2) @@ ("3" :> 3)
    @@ ("4" :> 4) @@ ("7" :> 7) @@ ("31" :> 31) @@ ("992" :> 992)
    @@ ("1057" :> 1057) @@ ("2114" :> 2114) @@ ("3171" :> 3171)
    @@ ("4228" :> 4228) @@ ("5285" :> 5285) @@ ("6342" :> 6342)
    @@ ("7399" :> 7399) @@ ("8456" :> 8456) @@ ("9513" :> 9513)
    @@ ("10570" :> 10570) @@ ("11627" :> 11627) @@ ("12684" :> 12684)
    @@ ("13741" :> 13741) @@ ("14798" :> 14798) @@ ("15855" :> 15855)
    @@ ("16912" :> 16912) @@ ("17969" :> 17969) @@ ("19026" :> 19026)
    @@ ("20083" :> 20083) @@ ("21140" :> 21140) @@ ("22197" :> 22197)
    @@ ("23254" :> 23254) @@ ("24311" :> 24311) @@ ("25368" :> 25368)
    @@ ("26425" :> 26425) @@ ("27482" :> 27482) @@ ("28539" :> 28539)
    @@ ("29596" :> 29596) @@ ("30653" :> 30653) @@ ("31710" :> 31710)
    @@ ("32767" :> 32767)

\* parts[k], k counted from 0; undefined past the end of the line
Part(parts, k) == IF k + 1 <= Len(parts) THEN parts[k + 1] ELSE Undefined

\* isNaN(parseInt(token)), isNaN(parseFloat(token))
IsNaN(token) == token \notin DOMAIN Numerals
parseInt(token) == Numerals[token]
parseFloat(token) == Numerals[token]

\* vector.normalize(), exact for the vectors along an axis and the zero
\* vector (the only normals the modelled files carry)
Sign(x) == IF x > 0 THEN 1 ELSE IF x < 0 THEN -1 ELSE 0
Normalize(v) == << Sign(v[1]), Sign(v[2]), Sign(v[3]) >>

\* parts.slice(1).map(v => parseInt(v)).filter(v => !isNaN(v))
RECURSIVE Indices(_)
Indices(tokens) ==
  IF tokens = << >> THEN << >>
  ELSE IF IsNaN(Head(tokens)) THEN Indices(Tail(tokens))
  ELSE << parseInt(Head(tokens)) >> \o Indices(Tail(tokens))

\* A V line of a face that replaces the indices read so far
ReplaceIndices(faceVertices, indices) == indices

\* faceVertices.push(...indices)
PushIndices(faceVertices, indices) == faceVertices \o indices

\* The E line of a face: the face is pushed if it has 3 indices or more
CloseFace(faces, currentFace, faceVertices) ==
  IF Len(faceVertices) >= 3
  THEN Append(faces, ("vertices" :> faceVertices) @@ currentFace)
  ELSE faces

\* The state of parseSRF before the first line
ParseStart ==
  [vertices |-> << >>, faces |-> << >>, inFace |-> FALSE,
   currentFace |-> << >>, faceVertices |-> << >>]

\* One turn of the loop of parseSRF over the lines
ParseLine(st, parts) ==
  LET cmd == Part(parts, 0) IN
  IF parts = << >> \/ parts = << "Surf" >> THEN st
  ELSE IF parts = << "E" >> /\ ~st.inFace THEN st
  ELSE IF cmd = "V" /\ ~st.inFace
  THEN IF ~IsNaN(Part(parts, 1)) /\ ~IsNaN(Part(parts, 2)) /\ ~IsNaN(Part(parts, 3))
       THEN [st EXCEPT !.vertices =
               Append(@, << parseFloat(parts[2]), parseFloat(parts[3]),
                            parseFloat(parts[4]) >>)]
       ELSE st
  ELSE IF cmd = "F"
  THEN [st EXCEPT !.inFace = TRUE, !.currentFace = [bright |-> FALSE],
                  !.faceVertices = << >>]
  ELSE IF cmd = "E" /\ st.inFace
  THEN [st EXCEPT !.faces = CloseFace(@, st.currentFace, st.faceVertices),
                  !.inFace = FALSE, !.currentFace = << >>,
                  !.faceVertices = << >>]
  ELSE IF cmd = "C" /\ st.inFace
  THEN [st EXCEPT !.currentFace = ("color" :> parseInt(Part(parts, 1))) @@ @]
  ELSE IF cmd = "N" /\ st.inFace
  THEN [st EXCEPT !.currentFace =
          ("normal" :> Normalize(<< parseFloat(Part(parts, 4)),
                                    parseFloat(Part(parts, 5)),
                                    parseFloat(Part(parts, 6)) >>)) @@ @]
  ELSE IF cmd = "V" /\ st.inFace
  THEN [st EXCEPT !.faceVertices = PushIndices(@, Indices(Tail(parts)))]
  ELSE IF cmd = "BRI" /\ st.inFace
  THEN [st EXCEPT !.currentFace = ("bright" :> TRUE) @@ @]
  ELSE st

RECURSIVE ParseLines(_, _)
ParseLines(st, lines) ==
  IF lines = << >> THEN st
  ELSE ParseLines(ParseLine(st, Head(lines)), Tail(lines))

\* parseSRF(content)
parseSRF(content) ==
  LET st == ParseLines(ParseStart, content)
  IN [vertices |-> st.vertices, faces |-> st.faces]

\* c * 1.5 + 0.2 of a colour channel c, not clamped
BrightenUnclamped(c) == Quotient(15 * c.num + 2 * c.den, 10 * c.den)

\* Math.min(1, c * 1.5 + 0.2) of a colour channel c
Brighten(c) ==
  IF 15 * c.num + 2 * c.den >= 10 * c.den THEN One
  ELSE Quotient(15 * c.num + 2 * c.den, 10 * c.den)

\* The three attribute lists and the count of skipped faces before the
\* first face
NoTriangles ==
  [position |-> << >>, normal |-> << >>, color |-> << >>, skippedFaces |-> 0]

\* The vertices of one triangle pushed from corner k (counted from 1) on
RECURSIVE PushTriangle(_, _, _, _, _, _)
PushTriangle(geo, tri, k, vertices, normal, finalColor) ==
  IF k > Len(tri) THEN geo
  ELSE LET idx == tri[k]
           next ==
             IF idx + 1 \notin DOMAIN vertices THEN geo
             ELSE LET v == vertices[idx + 1] IN
                  [geo EXCEPT
                     !.position = @ \o v,
                     !.normal = @ \o normal,
                     !.color = @ \o << finalColor.r, finalColor.g, finalColor.b >>]
       IN PushTriangle(next, tri, k + 1, vertices, normal, finalColor)

RECURSIVE PushTriangles(_, _, _, _, _)
PushTriangles(geo, triangles, vertices, normal, finalColor) ==
  IF triangles = << >> THEN geo
  ELSE PushTriangles(PushTriangle(geo, Head(triangles), 1, vertices, normal, finalColor),
                     Tail(triangles), vertices, normal, finalColor)

\* A face passes when one of its indices is that of a vertex
someIndexValid(indices, vertices) ==
  \E k \in DOMAIN indices : indices[k] >= 0 /\ indices[k] < Len(vertices)

\* face.vertices.every(idx => idx >= 0 && idx < vertices.length)
validIndices(indices, vertices) ==
  \A k \in DOMAIN indices : indices[k] >= 0 /\ indices[k] < Len(vertices)

\* One turn of the loop of createGeometryFromSRF over the faces
AddFace(geo, face, vertices) ==
  LET color == colorToRGB(IF "color" \in DOMAIN face THEN face.color ELSE 31)
      normal == IF "normal" \in DOMAIN face THEN face.normal ELSE << 0, 1, 0 >>
      skipped == [geo EXCEPT !.skippedFaces = @ + 1]
  IN IF "vertices" \notin DOMAIN face \/ Len(face.vertices) < 3 THEN skipped
     ELSE IF ~validIndices(face.vertices, vertices) THEN skipped
     ELSE LET finalColor ==
                IF face.bright
                THEN Color(Brighten(color.r), Brighten(color.g), Brighten(color.b))
                ELSE color
          IN PushTriangles(geo, triangulate(face.vertices), vertices, normal, finalColor)

RECURSIVE AddFaces(_, _, _)
AddFaces(geo, faces, vertices) ==
  IF faces = << >> THEN geo
  ELSE AddFaces(AddFace(geo, Head(faces), vertices), Tail(faces), vertices)

\* The geometry returned as it is when no vertex was pushed
NoPlaceholder(geo) == geo

\* The geometry returned when no vertex was pushed: one white triangle
Placeholder(geo) ==
  [geo EXCEPT !.position = << 0, 0, 0, 1, 0, 0, 0, 1, 0 >>,
              !.normal = << 0, 0, 1, 0, 0, 1, 0, 0, 1 >>,
              !.color = << One, One, One, One, One, One, One, One, One >>]

\* createGeometryFromSRF(content): the position, normal and color attributes
\* of the geometry returned, and the count the warning reports
createGeometryFromSRF(content) ==
  LET parsed == parseSRF(content)
      geo == AddFaces(NoTriangles, parsed.faces, parsed.vertices)
  IN IF Len(geo.position) = 0 THEN Placeholder(geo) ELSE geo

\* The model files the parser is called with: the Surf line, a block of
\* vertex lines, then face blocks. A face block is F, the lines of its
\* colour, normal and brightness, its V lines (all indices on one line, or
\* one index per line) and E.
MaxFaces == 2
VertexCounts == {3, 4}

NumeralOf(n) == CHOOSE token \in DOMAIN Numerals : Numerals[token] = n
VertexLine(k) == << "V", NumeralOf(k), "0", NumeralOf(k - 1) >>
VertexLines(n) == [k \in 1..n |-> VertexLine(k)]

FaceIndexTokens ==
  { << "0", "1", "2" >>, << "0", "1", "2", "3" >>, << "0", "1" >>,
    << "0", "1", "7" >>, << "-1", "0", "1" >> }

Decors == {"plain", "coloured", "bright"}
DecorLines(decor) ==
  IF decor = "plain" THEN << >>
  ELSE << << "C", "992" >>, << "N", "0", "0", "0", "0", "0", "1" >> >>
         \o (IF decor = "bright" THEN << << "BRI" >> >> ELSE << >>)

IndexLines(tokens, split) ==
  IF split THEN [k \in 1..Len(tokens) |-> << "V", tokens[k] >>]
  ELSE << << "V" >> \o tokens >>

FaceBlock(tokens, split, decor) ==
  << << "F" >> >> \o DecorLines(decor) \o IndexLines(tokens, split) \o << << "E" >> >>

FaceBlocks ==
  { FaceBlock(tokens, split, decor) :
      tokens \in FaceIndexTokens, split \in BOOLEAN, decor \in Decors }

RECURSIVE Concat(_)
Concat(blocks) ==
  IF blocks = << >> THEN << >> ELSE Head(blocks) \o Concat(Tail(blocks))

\* The empty text, a text that is no model file, a face of a file without
\* vertices, a face left open at the end of the file.
OddContents ==
  { << << >> >>,
    << << "Surf" >> >> \o FaceBlock(<< "0", "1", "2" >>, FALSE, "plain"),
    << << "hello", "world" >>, << "E" >>, << "BRI" >> >>,
    << << "Surf" >> >> \o VertexLines(3) \o << << "F" >>, << "V", "0", "1", "2" >> >> }

\* One triangle of each grey 1057 * v (the 5-bit value v in all three
\* channels), with and without the BRI line.
GreyContents ==
  { << << "Surf" >> >> \o VertexLines(3)
      \o << << "F" >>, << "C", NumeralOf(1057 * v) >> >>
      \o (IF bright THEN << << "BRI" >> >> ELSE << >>)
      \o << << "V", "0", "1", "2" >>, << "E" >> >> :
      v \in 0..31, bright \in BOOLEAN }

\* Four vertex lines, the j-th with a coordinate that is no number, and one
\* face.
MalformedVertexLine == << "V", "x", "0", "1" >>
MalformedContents ==
  { << << "Surf" >> >>
      \o [k \in 1..4 |-> IF k = j THEN MalformedVertexLine ELSE VertexLine(k)]
      \o FaceBlock(tokens, FALSE, "plain") :
      j \in 1..4,
      tokens \in { << "0", "1", "2" >>, << "1", "2", "3" >>, << "0", "2", "3" >> } }

Contents ==
  { << << "Surf" >> >> \o VertexLines(nv) \o Concat(blocks) :
      nv \in VertexCounts,
      blocks \in UNION { [1..n -> FaceBlocks] : n \in 0..MaxFaces } }
    \cup OddContents \cup GreyContents \cup MalformedContents

ColorCodes == 0 .. (32 * 32 * 32 - 1)
IndexLists == UNION { [1..n -> 0..MaxIndex] : n \in 0..MaxIndices }

\* A call is the whole of a behaviour of the parser: the functions keep no
\* state from one call to the next.
controllerVars == << flightVars, deltaTime, frames, ticks, idle, thrown, scene >>

CallColorToRGB ==
  /\ call = NoCall
  /\ \E colorCode \in ColorCodes :
       call' = [fn |-> "colorToRGB", arg |-> colorCode,
                result |-> colorToRGB(colorCode)]
  /\ UNCHANGED controllerVars

CallTriangulate ==
  /\ call = NoCall
  /\ \E indices \in IndexLists :
       call' = [fn |-> "triangulate", arg |-> indices,
                result |-> triangulate(indices)]
  /\ UNCHANGED controllerVars

CallCreateGeometryFromSRF ==
  /\ call = NoCall
  /\ \E content \in Contents :
       call' = [fn |-> "createGeometryFromSRF", arg |-> content,
                result |-> createGeometryFromSRF(content)]
  /\ UNCHANGED controllerVars

NextParser == CallColorToRGB \/ CallTriangulate \/ CallCreateGeometryFromSRF

SpecParser == Init /\ [][NextParser]_vars

(***************************************************************************)
(* The sessions of FlybyScene.  App holds the selection of the debug       *)
(* controls; FlybyScene holds the maneuver and the sessionKey that is the  *)
(* key of the Aircraft, so a new key replaces the Aircraft, and with it    *)
(* its geometry, its completedRef and its flight controller.  The aircraft *)
(* model enters only as the outcome of loadSRF.                            *)
(***************************************************************************)

\* Sessions FlybyScene starts after the first: the bound on sessionKey.
MaxSessions == 2

\* The draws of initFlight and the frame deltas of the sessions: one start
\* position, and the frames of 0.1 s and longer, which the Aircraft clamps.
SessionDirDraws == {3}
SessionJitterDraws == {0}
SessionDeltas == { delta \in DeltaTimes : delta >= Scale \div 10 }

\* The options of the SELECT_MANEUVER control.
SelectOptions == {"random"} \cup ManeuverType

\* const flight = useFlightController() of a new Aircraft: the constructed
\* state, and no update call yet.
useFlightController ==
  /\ position' = Vector3(0, ALTITUDE * Scale, 0)
  /\ heading' = 0
  /\ pitch' = 0
  /\ bank' = 0
  /\ maneuverProgress' = Zero
  /\ currentManeuver' = "straight"
  /\ maneuverPhase' = 0
  /\ isComplete' = FALSE
  /\ stepProgress' = 0
  /\ deltaTime' = 0
  /\ frames' = {}
  /\ ticks' = 0
  /\ idle' = 0
  /\ thrown' = FALSE
  /\ UNCHANGED call

\* The Aircraft rendered under a key: geometry null and loadSRF under way,
\* completedRef false, onManeuverComplete not yet invoked.
Session(selected, maneuver, key, timers) ==
  [mounted |-> TRUE, selectedManeuver |-> selected, maneuver |-> maneuver,
   sessionKey |-> key, geometry |-> "loading", completedRef |-> FALSE,
   timers |-> timers, completions |-> 0]

\* setManeuver(maneuver); setSessionKey(k => k + 1)
StartSession(selected, maneuver, timers) ==
  /\ scene.sessionKey < MaxSessions
  /\ scene' = Session(selected, maneuver, scene.sessionKey + 1, timers)
  /\ useFlightController

\* App and FlybyScene are mounted: the selection comes from the stored
\* settings, the maneuver from the selection, and the effect on
\* selectedManeuver runs once and starts a session for a specific selection.
MountApp ==
  /\ scene = NoScene
  /\ \E stored \in StoredSettings :
       LET selectedManeuver == loadDebugSettings(stored).selectedManeuver IN
       \E r \in (IF selectedManeuver = "random" THEN ManeuverDraws ELSE {0}) :
         scene' = Session(selectedManeuver, InitialManeuver(selectedManeuver, r),
                          IF selectedManeuver # "random" THEN 1 ELSE 0, {})
  /\ useFlightController

\* The user picks another option of SELECT_MANEUVER: the effect on
\* selectedManeuver starts a session for a specific option and does
\* nothing for 'random'.
SelectManeuver ==
  /\ scene # NoScene
  /\ \E option \in SelectOptions \ {scene.selectedManeuver} :
       IF option # "random"
       THEN StartSession(option, option, scene.timers)
       ELSE /\ scene' = [scene EXCEPT !.selectedManeuver = option]
            /\ UNCHANGED << flightVars, deltaTime, frames, ticks, idle, thrown,
                            call >>

\* loadSRF resolves: setGeometry(geo), and the init effect calls
\* initFlight(maneuver) and clears completedRef.
LoadResolves ==
  /\ scene # NoScene
  /\ scene.geometry = "loading"
  /\ \E rDir \in SessionDirDraws, rJitter \in SessionJitterDraws :
       initFlight(scene.maneuver, rDir, rJitter, 0)
  /\ scene' = [scene EXCEPT !.geometry = "loaded", !.completedRef = FALSE]

\* loadSRF rejects: console.error, and geometry stays null.
LoadRejects ==
  /\ scene # NoScene
  /\ scene.geometry = "loading"
  /\ scene' = [scene EXCEPT !.geometry = "rejected"]
  /\ UNCHANGED << flightVars, deltaTime, frames, ticks, idle, thrown, call >>

\* flight.isComplete() && !completedRef.current
CompletionDueAgain(complete, completedRef) == complete
CompletionDue(complete, completedRef) == complete /\ ~completedRef

\* if (!meshRef.current || !geometry) return
GeometryAny(geometry) == FALSE
GeometryMissing(geometry) == geometry # "loaded"

\* handleManeuverComplete: a timer of 500 ms whose callback reads the
\* selectedManeuver of the render that made handleManeuverComplete.
onManeuverComplete(s) ==
  [s EXCEPT !.completedRef = TRUE,
            !.timers = s.timers \cup {s.selectedManeuver},
            !.completions = s.completions + 1]

\* One frame of the Aircraft: nothing without geometry; else
\* update(clampedDelta), and, unless update threw, onManeuverComplete when
\* the flight is complete and completedRef is not yet set.
AircraftFrame ==
  /\ scene # NoScene
  /\ IF GeometryMissing(scene.geometry)
     THEN UNCHANGED vars
     ELSE /\ idle < MaxIdle
          /\ \E delta \in SessionDeltas : update(clampedDelta(delta))
          /\ scene' = IF ~thrown' /\ CompletionDue(isComplete', scene.completedRef)
                      THEN onManeuverComplete(scene)
                      ELSE scene

\* A timer of handleManeuverComplete fires: the maneuver comes from the
\* selectedManeuver the callback holds, and the next session starts.
TimerFires ==
  /\ scene # NoScene
  /\ \E selectedManeuver \in scene.timers :
       \E r \in (IF selectedManeuver = "random" THEN ManeuverDraws ELSE {0}) :
         StartSession(scene.selectedManeuver,
                      InitialManeuver(selectedManeuver, r),
                      scene.timers \ {selectedManeuver})

NextSessions ==
  \/ MountApp
  \/ SelectManeuver
  \/ LoadResolves
  \/ LoadRejects
  \/ AircraftFrame
  \/ TimerFires

SpecSessions == Init /\ [][NextSessions]_vars

(***************************************************************************)
(* Vocabulary of the properties.                                           *)
(***************************************************************************)

\* The active maneuver is one of the six of the table.
Known == currentManeuver \in DOMAIN MANEUVERS

\* maneuver.length of the active maneuver.
StepCount == Len(MANEUVERS[currentManeuver])

\* The step an update call would execute.
CurrentStep == MANEUVERS[currentManeuver][maneuverPhase + 1]

\* A step of the behaviour made by an update call, by an initFlight call.
UpdateStep == ticks' = ticks + 1 \/ idle' = idle + 1
InitFlightStep == ticks' = 0 /\ idle' = 0 /\ deltaTime' = 0

\* The distance flown under attitude e, and the whole distance flown.
PathAt(pos, e) == IF e \in DOMAIN pos.path THEN pos.path[e] ELSE 0

RECURSIVE SumOver(_, _)
SumOver(f, S) ==
  IF S = {} THEN 0
  ELSE LET e == CHOOSE x \in S : TRUE IN f[e] + SumOver(f, S \ {e})
Travelled(pos) == SumOver(pos.path, DOMAIN pos.path)

CeilDiv(a, b) == (a + b - 1) \div b

\* Half a turn and a full turn, in the model's radians.
HalfTurn == PI * Scale
FullTurn == 2 * PI * Scale

(***************************************************************************)
(* C1.  Under update calls maneuverPhase never decreases and grows by at   *)
(* most 1 per call, however large deltaTime is, and isComplete is never    *)
(* true while maneuverPhase is below the maneuver's step count.            *)
(***************************************************************************)
C1_PhaseMonotone ==
  /\ [][UpdateStep => /\ maneuverPhase' >= maneuverPhase
                      /\ maneuverPhase' <= maneuverPhase + 1]_vars
  /\ [](Known /\ isComplete => maneuverPhase >= StepCount)

\* An update of 20 s, which covers several steps of the figure eight, has
\* advanced the phase by one: two such calls leave it at 2.
C1_Witness ==
  /\ currentManeuver = "eight"
  /\ deltaTime = 16000
  /\ ticks = 2
  /\ maneuverPhase = 2

(***************************************************************************)
(* C2.  Once isComplete is true, an update call leaves position, heading,   *)
(* pitch, bank, maneuverPhase, stepProgress, maneuverProgress and          *)
(* currentManeuver (and isComplete) unchanged; only initFlight leaves the  *)
(* complete state.                                                         *)
(***************************************************************************)
C2_CompleteIsFrozen ==
  [][isComplete =>
       /\ UpdateStep => UNCHANGED flightVars
       /\ ~isComplete' => InitFlightStep]_vars

\* update has been called twice on a complete flight.
C2_Witness == isComplete /\ idle = 2 /\ ~thrown /\ Travelled(position) > 0

(***************************************************************************)
(* C3 as stated: in every state between update calls, maneuverPhase equal  *)
(* to the step count implies isComplete.                                   *)
(***************************************************************************)
C3_Original == Known /\ maneuverPhase = StepCount => isComplete

(***************************************************************************)
(* C3 amended.  The update that finishes the last step leaves              *)
(* maneuverPhase at the step count with isComplete still false; the next   *)
(* update call sets isComplete, and isComplete is true in no state whose   *)
(* maneuverPhase differs from the step count.                              *)
(***************************************************************************)
C3_CompleteOneCallLater ==
  /\ [][Known /\ maneuverPhase < StepCount /\ UpdateStep => ~isComplete']_vars
  /\ [][Known /\ maneuverPhase = StepCount /\ UpdateStep => isComplete']_vars
  /\ [](Known /\ isComplete => maneuverPhase = StepCount)

\* The last step is finished and completion is not yet reported.
C3_Witness ==
  /\ currentManeuver = "turn360"
  /\ maneuverPhase = StepCount
  /\ ~isComplete
  /\ ticks > 0

(***************************************************************************)
(* C4 as stated: maneuverProgress is never equal to 1.                     *)
(***************************************************************************)
C4_Original == maneuverProgress # One

(***************************************************************************)
(* C4 amended.  maneuverProgress lies in the closed interval [0, 1]: it is *)
(* below 1 while maneuverPhase is below the step count and equal to 1 from *)
(* the update that finishes the last step on.                              *)
(***************************************************************************)
C4_ProgressInClosedUnit ==
  /\ maneuverProgress.num >= 0
  /\ maneuverProgress.den > 0
  /\ maneuverProgress.num <= maneuverProgress.den
  /\ Known => (maneuverProgress = One <=> maneuverPhase = StepCount)
  /\ Known => maneuverProgress.num * StepCount = maneuverPhase * maneuverProgress.den

\* The loop has finished its last step: maneuverProgress is 3 / 3.
C4_Witness ==
  /\ currentManeuver = "loop"
  /\ maneuverPhase = 3
  /\ maneuverProgress = One

\* The heading the session began with: 0 as constructed, else the inward
\* heading initFlight gave for the start position drawn.
InitialHeading ==
  IF position.origin[1] = 0 /\ position.origin[3] = 0 THEN 0
  ELSE StartHeading(RandomDir(
         CHOOSE r \in DirDraws :
           /\ position.origin[1] = StartPosition(RandomDir(r), 0).origin[1]
           /\ position.origin[3] = StartPosition(RandomDir(r), 0).origin[3]))

\* The one step of the straight maneuver.
StraightStep == MANEUVERS["straight"][1]

(***************************************************************************)
(* C5 as stated: for the straight maneuver at a fixed deltaTime d, the     *)
(* number of update calls until isComplete is first true is                *)
(* ceil(1000 / (100 * d)).                                                 *)
(***************************************************************************)
C5_Original ==
  currentManeuver = "straight" /\ isComplete
    => ticks = CeilDiv(StraightStep.value * Scale, SPEED * deltaTime)

(***************************************************************************)
(* C5 amended.  For the straight maneuver at a fixed deltaTime d, the      *)
(* number of update calls until isComplete is first true is                *)
(* ceil(1000 / (100 * d)) + 1: ceil(1000 / (100 * d)) calls fly the step   *)
(* and one more call reports completion.                                   *)
(***************************************************************************)
C5_TicksToComplete ==
  /\ currentManeuver = "straight" /\ isComplete
       => ticks = CeilDiv(StraightStep.value * Scale, SPEED * deltaTime) + 1
  /\ currentManeuver = "straight" /\ ~isComplete /\ ticks > 0
       => ticks <= CeilDiv(StraightStep.value * Scale, SPEED * deltaTime)

\* d = 0.07 s: ceil(1000 / 7) = 143 flying calls and the reporting one.
C5_Witness ==
  /\ currentManeuver = "straight"
  /\ isComplete
  /\ deltaTime = 56
  /\ ticks = 144

(***************************************************************************)
(* C6 as stated: for the straight maneuver at a fixed deltaTime in         *)
(* (0, 0.1], the distance travelled at completion is exactly 1000 along    *)
(* the initial heading, and pitch and bank are still 0.                    *)
(***************************************************************************)
C6_Original ==
  currentManeuver = "straight" /\ isComplete /\ deltaTime <= Scale \div 10
    => /\ position.path = (Euler(0, InitialHeading, 0) :> StraightStep.value * Scale)
       /\ pitch = 0
       /\ bank = 0

(***************************************************************************)
(* C6 amended.  For the straight maneuver at a fixed deltaTime d the       *)
(* distance travelled at completion is ceil(1000 / (100 * d)) * 100 * d:   *)
(* at least 1000 and less than 1000 + 100 * d, the last tick's overshoot   *)
(* not being clipped (exactly 1000 only when 100 * d divides 1000).  All   *)
(* of it is along the initial heading, and pitch and bank are still 0.     *)
(***************************************************************************)
C6_StraightDistance ==
  currentManeuver = "straight" /\ isComplete
    => /\ DOMAIN position.path = {Euler(0, InitialHeading, 0)}
       /\ Travelled(position)
            = CeilDiv(StraightStep.value * Scale, SPEED * deltaTime) * SPEED * deltaTime
       /\ Travelled(position) >= StraightStep.value * Scale
       /\ Travelled(position) < StraightStep.value * Scale + SPEED * deltaTime
       /\ heading = InitialHeading
       /\ pitch = 0
       /\ bank = 0

\* d = 0.07 s: 143 ticks of 7 units, 1001 units flown.
C6_Witness ==
  /\ currentManeuver = "straight"
  /\ isComplete
  /\ deltaTime = 56
  /\ Travelled(position) = 1001 * Scale
  /\ position.origin[1] # 0

(***************************************************************************)
(* C7 as stated: after the roll maneuver completes, for deltaTimes in      *)
(* (0, 0.1], the accumulated bank change since initFlight is exactly one   *)
(* full circle (2 * pi), with no overshoot.                                *)
(***************************************************************************)
C7_Original ==
  currentManeuver = "roll" /\ isComplete /\ deltaTime <= Scale \div 10
    => bank = FullTurn

(***************************************************************************)
(* C7 amended.  After the roll maneuver completes, the accumulated bank    *)
(* change since initFlight is at least one full circle and exceeds it by   *)
(* less than the bank change of one tick (BANK_RATE * deltaTime units):    *)
(* the last bank tick's overshoot is kept.  It is exactly one full circle  *)
(* when the ticks' increments add up to exactly 65536 units.               *)
(***************************************************************************)
C7_RollBank ==
  /\ currentManeuver = "roll" /\ isComplete
       => /\ bank >= FullTurn
          /\ bank < FullTurn + toRadians(deltaTime * BANK_RATE)
          /\ bank = toRadians(CeilDiv(FULL_CIRCLE * Scale, deltaTime * BANK_RATE)
                              * deltaTime * BANK_RATE)
  /\ currentManeuver = "roll" /\ isComplete /\ deltaTime = Scale \div 10
       => bank = FullTurn

\* d = 0.07 s: 29 bank ticks, 66519.04 units, 1.015 turns.
C7_Witness ==
  /\ currentManeuver = "roll"
  /\ isComplete
  /\ deltaTime = 56
  /\ bank > FullTurn

(***************************************************************************)
(* C8.  In every update that executes a pitch, bank or turn step, the      *)
(* tick's position increment is made under the heading, pitch and bank     *)
(* held before the tick's angle increment; nothing is flown under the new  *)
(* attitude in that tick.                                                  *)
(***************************************************************************)
C8_TranslateThenRotate ==
  [][ (/\ UpdateStep
       /\ Known /\ ~isComplete /\ maneuverPhase < StepCount
       /\ CurrentStep.type \in {"pitch", "bank", "turn"})
      => LET before == Euler(pitch, heading, bank)
             after == Euler(pitch', heading', bank')
         IN /\ after # before
            /\ PathAt(position', before) = PathAt(position, before) + SPEED * deltaTime'
            /\ PathAt(position', after) = PathAt(position, after)
            /\ Travelled(position') = Travelled(position) + SPEED * deltaTime'
    ]_vars

\* In the middle of the 360 degree turn the attitude just reached has not
\* been flown under yet, and the one before it has.
C8_Witness ==
  /\ currentManeuver = "turn360"
  /\ maneuverPhase = 2
  /\ stepProgress > 0
  /\ PathAt(position, Euler(pitch, heading, bank)) = 0
  /\ PathAt(position, Euler(pitch, heading - toRadians(deltaTime * TURN_RATE), bank))
       = SPEED * deltaTime

(***************************************************************************)
(* C9.  update called with isComplete false and maneuverPhase at or beyond *)
(* the step count does not throw: it sets isComplete and leaves position,  *)
(* heading, pitch, bank, maneuverPhase and stepProgress unchanged.         *)
(***************************************************************************)
C9_OutOfRangeCompletes ==
  [][ UpdateStep /\ Known /\ ~isComplete /\ maneuverPhase >= StepCount
      => /\ isComplete'
         /\ ~thrown'
         /\ UNCHANGED << position, heading, pitch, bank, maneuverPhase, stepProgress >>
    ]_vars

\* The call that found the phase at the step count has just returned.
C9_Witness ==
  /\ Known
  /\ isComplete
  /\ ~thrown
  /\ idle = 0
  /\ maneuverPhase = StepCount
  /\ currentManeuver = "climb"

C11_Original ==
  /\ currentManeuver \in ManeuverType
  /\ ~thrown

\* C12: whatever the persisted selectedManeuver setting is, the scene hands
\* initFlight one of the six maneuvers, so no update call of a frame throws.
C12_Original ==
  /\ ~thrown
  /\ Known

\* C13: for each of the six maneuvers, a flight whose update is called again
\* and again with frame times of at least the smallest of DeltaTimes reaches
\* isComplete after finitely many calls.
C13_FlightCompletes == (Known /\ ticks > 0) ~> isComplete

\* The longest maneuver flown to its end at the smallest frame time.
C13_Witness ==
  /\ isComplete
  /\ currentManeuver = "eight"
  /\ maneuverPhase = StepCount
  /\ deltaTime = 56
  /\ ticks > 0

\* C14: colorToRGB decodes a code c in 0..32767 as green = ((c / 1024) mod
\* 32) / 31, red = ((c / 32) mod 32) / 31, blue = (c mod 32) / 31; code 0 is
\* black, code 0x7FFF is white, and a code with only bits 10-14 set has no
\* red, no blue and some green.
C14_ColorDecode ==
  call.fn = "colorToRGB" =>
    LET c == call.arg
        rgb == call.result
    IN /\ rgb.g = Quotient((c \div 1024) % 32, 31)
       /\ rgb.r = Quotient((c \div 32) % 32, 31)
       /\ rgb.b = Quotient(c % 32, 31)
       /\ c = 0 => rgb = Color(Zero, Zero, Zero)
       /\ c = 32767 => rgb = Color(One, One, One)
       /\ c \in { 1024 * k : k \in 1..31 } =>
            rgb.r = Zero /\ rgb.b = Zero /\ rgb.g.num > 0

\* The code with bits 10-14 all set decoded: full green, nothing else.
C14_Witness ==
  /\ call.fn = "colorToRGB"
  /\ call.arg = 31 * 1024
  /\ call.result = Color(Zero, One, Zero)

\* C15: triangulate of n >= 3 indices returns n - 2 triangles, the k-th being
\* [i0, ik, i(k+1)]; [0,1,2,3] gives [0,1,2] and [0,2,3]; a list shorter than
\* 3 gives no triangle.
C15_FanTriangulation ==
  call.fn = "triangulate" =>
    LET indices == call.arg
        triangles == call.result
        n == Len(indices)
    IN /\ n >= 3 =>
            /\ Len(triangles) = n - 2
            /\ \A k \in 1..(n - 2) :
                 triangles[k] = << indices[1], indices[k + 1], indices[k + 2] >>
       /\ n < 3 => triangles = << >>
       /\ indices = << 0, 1, 2, 3 >> => triangles = << << 0, 1, 2 >>, << 0, 2, 3 >> >>

\* The quad [0,1,2,3] triangulated.
C15_Witness ==
  /\ call.fn = "triangulate"
  /\ call.arg = << 0, 1, 2, 3 >>
  /\ Len(call.result) = 2

\* C16: a face with an index below 0 or at/above the number of vertices puts
\* no vertex in the mesh, raises the skipped-face count by exactly 1 and
\* leaves the vertices of the other faces as they are: the mesh is the mesh
\* of the faces in range alone, and the count is the number of faces out of
\* range. One valid triangle and one face out of range give the triangle
\* and a count of 1.
C16_OutOfRangeFaceSkipped ==
  call.fn = "createGeometryFromSRF" =>
    LET parsed == parseSRF(call.arg)
        InRange(face) ==
          \A k \in DOMAIN face.vertices :
            face.vertices[k] \in 0..(Len(parsed.vertices) - 1)
        kept == SelectSeq(parsed.faces, InRange)
        alone == AddFaces(NoTriangles, kept, parsed.vertices)
        geo == call.result
    IN /\ geo.skippedFaces = Len(parsed.faces) - Len(kept)
       /\ alone.position # << >> =>
            /\ geo.position = alone.position
            /\ geo.normal = alone.normal
            /\ geo.color = alone.color
       /\ call.arg = << << "Surf" >> >> \o VertexLines(3)
                       \o FaceBlock(<< "0", "1", "2" >>, FALSE, "plain")
                       \o FaceBlock(<< "0", "1", "7" >>, FALSE, "plain") =>
            /\ geo.position = << 1, 0, 0, 2, 0, 1, 3, 0, 2 >>
            /\ geo.skippedFaces = 1

\* A valid quad after a face with one index out of range: the two triangles
\* of the quad, one face skipped.
C16_Witness ==
  /\ call.fn = "createGeometryFromSRF"
  /\ call.arg = << << "Surf" >> >> \o VertexLines(4)
                  \o FaceBlock(<< "0", "1", "7" >>, FALSE, "plain")
                  \o FaceBlock(<< "0", "1", "2", "3" >>, TRUE, "plain")
  /\ Len(call.result.position) = 18
  /\ call.result.skippedFaces = 1

\* The face blocks of a text: the E lines that close an F line.
RECURSIVE FaceBlocksOf(_, _)
FaceBlocksOf(lines, inFace) ==
  IF lines = << >> THEN 0
  ELSE LET cmd == Part(Head(lines), 0) IN
       IF cmd = "F" THEN FaceBlocksOf(Tail(lines), TRUE)
       ELSE IF cmd = "E" /\ inFace THEN 1 + FaceBlocksOf(Tail(lines), FALSE)
       ELSE FaceBlocksOf(Tail(lines), inFace)

\* C17: the skipped-face count createGeometryFromSRF reports is the number
\* of face blocks of the input that put nothing in the mesh, the faces
\* closed with fewer than 3 indices and the faces with an index out of range
\* both counted.
C17_Original ==
  call.fn = "createGeometryFromSRF" =>
    LET parsed == parseSRF(call.arg)
        InMesh(face) ==
          /\ Len(face.vertices) >= 3
          /\ \A k \in DOMAIN face.vertices :
               face.vertices[k] \in 0..(Len(parsed.vertices) - 1)
    IN call.result.skippedFaces =
         FaceBlocksOf(call.arg, FALSE) - Len(SelectSeq(parsed.faces, InMesh))

\* C18: for every text, createGeometryFromSRF returns position, normal and
\* color lists of one length, the length of a positive whole number of
\* triangles (9 numbers each); when no face gives a triangle the result is
\* the placeholder triangle (0,0,0), (1,0,0), (0,1,0).
C18_MeshWellFormed ==
  call.fn = "createGeometryFromSRF" =>
    LET parsed == parseSRF(call.arg)
        geo == call.result
        GivesTriangle(face) ==
          /\ Len(face.vertices) >= 3
          /\ \A k \in DOMAIN face.vertices :
               face.vertices[k] \in 0..(Len(parsed.vertices) - 1)
    IN /\ Len(geo.position) = Len(geo.normal)
       /\ Len(geo.position) = Len(geo.color)
       /\ Len(geo.position) > 0
       /\ Len(geo.position) % 9 = 0
       /\ SelectSeq(parsed.faces, GivesTriangle) = << >> =>
            /\ geo.position = << 0, 0, 0, 1, 0, 0, 0, 1, 0 >>
            /\ Len(geo.normal) = 9
            /\ Len(geo.color) = 9

\* A text whose two faces are both out of range: the placeholder.
C18_Witness ==
  /\ call.fn = "createGeometryFromSRF"
  /\ call.result.skippedFaces = 2
  /\ call.result.position = << 0, 0, 0, 1, 0, 0, 0, 1, 0 >>
  /\ call.result.color[1] = One

\* A text with every V line of a face block written as one line per token.
RECURSIVE OneIndexPerLine(_, _)
OneIndexPerLine(lines, inFace) ==
  IF lines = << >> THEN << >>
  ELSE LET parts == Head(lines)
           cmd == Part(parts, 0)
       IN IF cmd = "V" /\ inFace
          THEN [k \in 1..(Len(parts) - 1) |-> << "V", parts[k + 1] >>]
                 \o OneIndexPerLine(Tail(lines), inFace)
          ELSE << parts >>
                 \o OneIndexPerLine(Tail(lines),
                                     IF cmd = "F" THEN TRUE
                                     ELSE IF cmd = "E" THEN FALSE
                                     ELSE inFace)

\* C19: the index list of a face is the concatenation, in file order, of the
\* integer tokens of its V lines: a text and the same text with each V line
\* of a face split into one line per index give the same faces and the same
\* mesh.
C19_IndexLinesConcatenate ==
  call.fn = "createGeometryFromSRF" =>
    LET split == OneIndexPerLine(call.arg, FALSE)
    IN /\ parseSRF(split).faces = parseSRF(call.arg).faces
       /\ createGeometryFromSRF(split) = call.result

\* A quad written as one line 'V 0 1 2 3': two triangles in the mesh.
C19_Witness ==
  /\ call.fn = "createGeometryFromSRF"
  /\ call.arg = << << "Surf" >> >> \o VertexLines(4)
                  \o FaceBlock(<< "0", "1", "2", "3" >>, FALSE, "bright")
  /\ OneIndexPerLine(call.arg, FALSE) # call.arg
  /\ Len(call.result.position) = 18

\* new THREE.Vector3(0, 0, 1).applyEuler(euler) of an 'YXZ' euler: the unit
\* forward vector of proceed, exact when heading and pitch are quarter turns.
applyEuler(euler) ==
  << Sin(euler.heading) * Cos(euler.pitch),
     -Sin(euler.pitch),
     Cos(euler.heading) * Cos(euler.pitch) >>

\* C20: initFlight leaves the aircraft at horizontal distance 200 from the
\* origin, facing inward: the horizontal forward direction (sin heading,
\* cos heading) of proceed points from the start position to the origin,
\* so startDistance flown along it ends above the origin.
C20_Original ==
  [][ InitFlightStep =>
        LET start == position'.origin
            forward == applyEuler(Euler(pitch', heading', bank'))
        IN /\ (start[1] \div Scale) * (start[1] \div Scale)
                + (start[3] \div Scale) * (start[3] \div Scale)
                = startDistance * startDistance
           /\ forward[1] = Sin(heading')
           /\ forward[3] = Cos(heading')
           /\ start[1] + startDistance * Scale * forward[1] = 0
           /\ start[3] + startDistance * Scale * forward[3] = 0
    ]_vars

\* C22: each step type changes only its own angle: an ahead step leaves
\* heading, pitch and bank as they are, a pitch step heading and bank, a bank
\* step heading and pitch, a turn step pitch and bank; so no update of the
\* roll maneuver changes heading or pitch, and no update changes
\* currentManeuver.
C22_StepDrivesOwnAngle ==
  [][ UpdateStep =>
        /\ currentManeuver' = currentManeuver
        /\ (Known /\ ~isComplete /\ maneuverPhase < StepCount) =>
             /\ CurrentStep.type # "turn" => heading' = heading
             /\ CurrentStep.type # "pitch" => pitch' = pitch
             /\ CurrentStep.type # "bank" => bank' = bank
        /\ currentManeuver = "roll" => heading' = heading /\ pitch' = pitch
    ]_vars

\* The roll maneuver flown to its end: bank driven through a full circle,
\* pitch and heading as initFlight left them.
C22_Witness ==
  /\ currentManeuver = "roll"
  /\ isComplete
  /\ bank >= FullTurn
  /\ pitch = 0
  /\ heading = StartHeading(RandomDir(3))

\* C23: between update calls stepProgress is at least 0 and below the target
\* value of the current step, and whenever maneuverPhase advances
\* stepProgress is reset to exactly 0: the overshoot is not carried into the
\* next step.
C23_StepProgressBelowTarget ==
  /\ [](Known /\ maneuverPhase < StepCount =>
          stepProgress >= 0 /\ stepProgress < CurrentStep.value * Scale)
  /\ [][ UpdateStep /\ maneuverPhase' # maneuverPhase => stepProgress' = 0 ]_vars

\* The first step of the roll maneuver (300 units) left at 0.07 s a frame:
\* 43 ticks fly 301 units, and the second step begins at progress 0.
C23_Witness ==
  /\ currentManeuver = "roll"
  /\ maneuverPhase = 1
  /\ stepProgress = 0
  /\ deltaTime = 56
  /\ ticks = 43
  /\ Travelled(position) = 301 * Scale

\* An angle of the model in 16-bit-circle units (times Scale).
Units16(angle) == (angle \div (2 * PI)) * FULL_CIRCLE

\* The angle a step of the given type drives, as a change since initFlight.
DrivenAngle(type) ==
  CASE type = "pitch" -> pitch
    [] type = "bank" -> bank
    [] type = "turn" -> heading - InitialHeading

\* The change, in units, the first k steps of a maneuver made to the angle of
\* the given type at frame time dt: each finished step of that type counts
\* with all its ticks, the last one whole.
RECURSIVE UnitsBefore(_, _, _, _)
UnitsBefore(maneuver, type, k, dt) ==
  IF k = 0 THEN 0
  ELSE UnitsBefore(maneuver, type, k - 1, dt)
         + (IF maneuver[k].type = type
            THEN Direction(maneuver[k])
                   * CeilDiv(maneuver[k].value * Scale, dt * Rate(maneuver[k]))
                   * dt * Rate(maneuver[k])
            ELSE 0)

\* C24: during a pitch, bank or turn step with direction s, the change of
\* the driven angle since the step began, in 16-bit-circle units, is s times
\* stepProgress after every tick; at the tick that ends the step it is s
\* times the progress before its reset, which is at least the target and
\* exceeds it by less than rate * deltaTime of that tick.
C24_AngleFollowsProgress ==
  /\ [](Known /\ ~isComplete /\ maneuverPhase < StepCount /\ deltaTime > 0
          /\ CurrentStep.type \in {"pitch", "bank", "turn"} =>
          Units16(DrivenAngle(CurrentStep.type))
            - UnitsBefore(MANEUVERS[currentManeuver], CurrentStep.type,
                          maneuverPhase, deltaTime)
            = Direction(CurrentStep) * stepProgress)
  /\ [][ (/\ UpdateStep
           /\ Known /\ ~isComplete /\ maneuverPhase < StepCount
           /\ CurrentStep.type \in {"pitch", "bank", "turn"}
           /\ maneuverPhase' # maneuverPhase) =>
          LET step == CurrentStep
              reached == stepProgress + deltaTime' * Rate(step)
              began == UnitsBefore(MANEUVERS[currentManeuver], step.type,
                                   maneuverPhase, deltaTime')
              now == CASE step.type = "pitch" -> pitch'
                       [] step.type = "bank" -> bank'
                       [] step.type = "turn" -> heading' - InitialHeading
          IN /\ Units16(now) - began = Direction(step) * reached
             /\ reached >= step.value * Scale
             /\ reached < step.value * Scale + deltaTime' * Rate(step)
    ]_vars

\* The bank-out step of turn360 (direction -1) under way at 0.07 s a frame.
C24_Witness ==
  /\ currentManeuver = "turn360"
  /\ maneuverPhase = 3
  /\ CurrentStep.direction = -1
  /\ stepProgress > 0
  /\ deltaTime = 56

\* C25: isEmittingSmoke() returns true exactly when isComplete is false,
\* maneuverPhase is below the step count and the current step is a pitch,
\* bank or turn step; it returns false in every ahead step and after
\* completion, and it changes nothing of the flight state.
C25_Original ==
  [][ call' # call =>
        /\ ~thrown'
        /\ call'.result =
             << (/\ Known
                 /\ ~isComplete
                 /\ maneuverPhase < StepCount
                 /\ CurrentStep.type \in {"pitch", "bank", "turn"}) >>
        /\ UNCHANGED flightVars
    ]_vars

\* C26: for every 5-bit channel value v (base channel c = v / 31) the
\* channel of a bright face is min(1, 1.5 * c + 0.2), at most 1 and never
\* below c; a face without the BRI flag keeps the base colour.
C26_BrightBoostClamped ==
  (call.fn = "createGeometryFromSRF" /\ call.arg \in GreyContents) =>
    LET face == parseSRF(call.arg).faces[1]
        v == face.color % 32
        boosted == IF 15 * v + 62 < 310 THEN 15 * v + 62 ELSE 310
    IN \A k \in DOMAIN call.result.color :
         LET q == call.result.color[k] IN
         IF face.bright
         THEN /\ q.num * 310 = boosted * q.den
              /\ q.num <= q.den
              /\ q.num * 31 >= v * q.den
         ELSE q.num * 31 = v * q.den

\* The bright grey of v = 10: 1.5 * 10 / 31 + 0.2 = 106 / 155.
C26_Witness ==
  /\ call.fn = "createGeometryFromSRF"
  /\ call.arg \in GreyContents
  /\ parseSRF(call.arg).faces[1].bright
  /\ call.result.color[1] = [num |-> 106, den |-> 155]

\* The vertex-definition lines of a text: its V lines outside the faces,
\* in file order, well formed or not.
RECURSIVE TopVertexLines(_, _)
TopVertexLines(lines, inFace) ==
  IF lines = << >> THEN << >>
  ELSE LET cmd == Part(Head(lines), 0) IN
       IF cmd = "V" /\ ~inFace
       THEN << Head(lines) >> \o TopVertexLines(Tail(lines), inFace)
       ELSE TopVertexLines(Tail(lines),
                           IF cmd = "F" THEN TRUE
                           ELSE IF cmd = "E" THEN FALSE
                           ELSE inFace)

\* C30: index i of a face resolves to the i-th vertex-definition line of the
\* text (from 0), also when an earlier vertex line is malformed and skipped:
\* a face whose indices all name well-formed vertex lines puts the
\* coordinates of exactly those lines in the mesh.
C30_Original ==
  (call.fn = "createGeometryFromSRF" /\ call.arg \in MalformedContents) =>
    LET tops == TopVertexLines(call.arg, FALSE)
        indices == parseSRF(call.arg).faces[1].vertices
        Coordinates(i) ==
          << Numerals[tops[i + 1][2]], Numerals[tops[i + 1][3]],
             Numerals[tops[i + 1][4]] >>
    IN (\A k \in DOMAIN indices : tops[indices[k] + 1] # MalformedVertexLine) =>
         call.result.position =
           Coordinates(indices[1]) \o Coordinates(indices[2])
             \o Coordinates(indices[3])

\* The largest frame time of the session.
LongestFrame == CHOOSE dt \in frames : \A other \in frames : other <= dt

(***************************************************************************)
(* C27 as stated: after the turn360 maneuver completes bank is 0 again,    *)
(* the bank-in and the bank-out step cancelling exactly, for every         *)
(* sequence of deltaTimes in (0, 0.1], uniform or not.                     *)
(***************************************************************************)
C27_Original == (currentManeuver = "turn360" /\ isComplete) => bank = 0

(***************************************************************************)
(* C27 amended.  After the turn360 maneuver completes, bank is 0 again     *)
(* when every update of the flight got the same deltaTime; when the        *)
(* deltaTimes differ, the overshoots of the bank-in and the bank-out step  *)
(* differ and bank ends off 0 by less than BANK_RATE times the largest     *)
(* deltaTime, in 16-bit-circle units.                                      *)
(***************************************************************************)
C27_BankResidue ==
  (currentManeuver = "turn360" /\ isComplete) =>
    /\ Cardinality(frames) = 1 => bank = 0
    /\ Units16(bank) < BANK_RATE * LongestFrame
    /\ Units16(bank) > -(BANK_RATE * LongestFrame)

\* turn360 flown to its end at 0.07 s a frame throughout: each bank step
\* overshoots its 12800 units, by the same amount.
C27_Witness ==
  /\ currentManeuver = "turn360"
  /\ isComplete
  /\ frames = {56}
  /\ bank = 0
  /\ (6 * 56 * BANK_RATE) > 12800 * Scale

\* C21: once a specific maneuver is selected in the debug controls, every
\* session that is running or started while it stays selected flies exactly
\* that maneuver, also when a completion timer scheduled under the
\* selection 'random' is still pending at the time of the selection.
C21_Original ==
  (/\ scene # NoScene
   /\ scene.selectedManeuver \in ManeuverType
   /\ scene.geometry = "loaded")
    => currentManeuver = scene.selectedManeuver

\* The step stays within one session: the Aircraft is not replaced.
SameSession ==
  /\ scene # NoScene
  /\ scene' # NoScene
  /\ scene'.sessionKey = scene.sessionKey

\* C28: within one session of the Aircraft onManeuverComplete is invoked at
\* most once: in the first frame whose update leaves isComplete true, and
\* in no frame after it.
C28_CompletesOnce ==
  /\ [](scene # NoScene => scene.completions <= 1)
  /\ [][ SameSession =>
           IF ~isComplete /\ isComplete'
           THEN scene'.completions = scene.completions + 1
           ELSE scene'.completions = scene.completions
       ]_vars

C28_Witness ==
  /\ scene # NoScene
  /\ scene.completions = 1
  /\ isComplete
  /\ idle = MaxIdle

\* C29: a flight starts only after the model has loaded.  While geometry is
\* null the Aircraft calls neither initFlight nor update; after loadSRF
\* rejects there is no retry, so in that session isComplete never becomes
\* true and onManeuverComplete is never invoked, and FlybyScene starts no
\* next session unless the user changes the selection.
C29_Original ==
  [][ /\ (/\ SameSession
          /\ GeometryMissing(scene.geometry)
          /\ GeometryMissing(scene'.geometry))
        => UNCHANGED << flightVars, deltaTime, frames, ticks, idle, thrown >>
      /\ (scene # NoScene /\ scene.geometry = "rejected")
        => IF SameSession
           THEN /\ scene'.geometry = "rejected"
                /\ ~isComplete'
                /\ scene'.completions = 0
           ELSE scene'.selectedManeuver # scene.selectedManeuver
    ]_vars

====
